---- MODULE Spec2Model ----
(***************************************************************************)
(* Mergington High School activities API (src/src/app.py).                 *)
(*                                                                         *)
(* The service is one process-wide dictionary, activities, and three       *)
(* request handlers: root, get_activities and signup_for_activity.         *)
(*                                                                         *)
(*   Spec          requests are served one after another; any activity     *)
(*                 name and any email of a small set, in any order.        *)
(*   SpecCapacity  requests are served one after another; the clients are  *)
(*                 a pool of fresh students who enrol in pool order, so    *)
(*                 that rosters grow past max_participants.                *)
(*   SpecThreads   signup handlers run in worker threads; the statements   *)
(*                 of signup_for_activity are separate steps.              *)
(***************************************************************************)
EXTENDS Integers, Sequences, FiniteSets, TLC

VARIABLES
    activities,     \* the in-memory activity database (app.py:31)
    request,        \* the request served last
    response,       \* the response it got
    before,         \* activities as it was when that request arrived
    okCount,        \* per (activity, email): how many signups returned 200
    lastListing,    \* body of the latest GET /activities, NoListing if none
    dirty,          \* a signup returned 200 since lastListing was produced
    priorListing,   \* lastListing as it was when the last request arrived
    priorDirty,     \* dirty as it was when the last request arrived
    pc,             \* per worker thread: the statement it is about to run
    call,           \* per worker thread: the arguments of its request
    result          \* per worker thread: the response it produced

vars == <<activities, request, response, before, okCount, lastListing, dirty,
          priorListing, priorDirty, pc, call, result>>

seqVars == <<request, response, before, okCount, lastListing, dirty,
             priorListing, priorDirty>>

threadVars == <<pc, call, result>>

----------------------------------------------------------------------------
(* Bounds of the model *)

\* Spec: successful signups the clients make in total.
MaxSignups == 3

\* SpecCapacity: a roster the clients stop enrolling into.
MaxRoster == 14

\* SpecThreads: worker threads serving signup requests.
NumThreads == 2

----------------------------------------------------------------------------
(* Seed data *)

Seed ==
    [n \in {"Chess Club", "Programming Class", "Gym Class"} |->
        CASE n = "Chess Club" ->
               [description |-> "Learn strategies and compete in chess tournaments",
                schedule |-> "Fridays, 3:30 PM - 5:00 PM",
                max_participants |-> 12,
                participants |-> <<"michael@mergington.edu", "daniel@mergington.edu">>]
          [] n = "Programming Class" ->
               [description |-> "Learn programming fundamentals and build software projects",
                schedule |-> "Tuesdays and Thursdays, 3:30 PM - 4:30 PM",
                max_participants |-> 20,
                participants |-> <<"emma@mergington.edu", "sophia@mergington.edu">>]
          [] n = "Gym Class" ->
               [description |-> "Physical education and sports activities",
                schedule |-> "Mondays, Wednesdays, Fridays, 2:00 PM - 3:00 PM",
                max_participants |-> 30,
                participants |-> <<"john@mergington.edu", "olivia@mergington.edu">>]]

----------------------------------------------------------------------------
(* Inputs *)

\* Path segments the clients send: the seeded names and an unknown one.
ActivityNames == DOMAIN Seed \cup {"Nonexistent Club"}

\* Emails the clients of Spec and SpecThreads send: two seeded, two new.
Emails == {"michael@mergington.edu", "emma@mergington.edu",
           "new_student@mergington.edu", "duplicate@mergington.edu"}

\* The fresh students of SpecCapacity, in the order they enrol.
StudentPool ==
    <<"s01@mergington.edu", "s02@mergington.edu", "s03@mergington.edu",
      "s04@mergington.edu", "s05@mergington.edu", "s06@mergington.edu",
      "s07@mergington.edu", "s08@mergington.edu", "s09@mergington.edu",
      "s10@mergington.edu", "s11@mergington.edu", "s12@mergington.edu",
      "s13@mergington.edu", "s14@mergington.edu", "s15@mergington.edu">>

Range(s) == {s[i] : i \in DOMAIN s}

AllEmails == Emails \cup Range(StudentPool)

Pairs == ActivityNames \X AllEmails

----------------------------------------------------------------------------
(* Helpers *)

RECURSIVE SumOver(_, _)
SumOver(f, S) ==
    IF S = {} THEN 0
    ELSE LET x == CHOOSE y \in S : TRUE IN f[x] + SumOver(f, S \ {x})

\* Entries a store holds beyond the seeded ones.
TotalAdded(store) ==
    SumOver([n \in DOMAIN store |-> Len(store[n].participants)], DOMAIN store)
    - SumOver([n \in DOMAIN Seed |-> Len(Seed[n].participants)], DOMAIN Seed)

Count(s, x) == Cardinality({i \in DOMAIN s : s[i] = x})

IsPrefix(s, t) == Len(s) <= Len(t) /\ SubSeq(t, 1, Len(s)) = s

NoListing == [none |-> TRUE]

NoRequest == [op |-> "none", activity_name |-> "", email |-> ""]

NoResponse == [status |-> 0, body |-> [none |-> TRUE]]

----------------------------------------------------------------------------
(* The handlers, as functions of the store and the request *)

\* GET /: RedirectResponse(url="/static/index.html"), whose default status is 307.
root == [status |-> 307, body |-> [location |-> "/static/index.html"]]

\* Variant of get_activities: the listing is the seed data, not the live store.
get_activities_seed_copy(store) == [status |-> 200, body |-> Seed]

\* GET /activities: return activities.
get_activities(store) == [status |-> 200, body |-> store]

\* raise HTTPException(status_code=..., detail=...): the store is left as it is.
HTTPException(store, status_code, detail) ==
    [status |-> status_code, body |-> [detail |-> detail], activities |-> store]

\* Variant of append: participants.insert(0, email).
append_at_front(store, activity_name, email) ==
    [store EXCEPT ![activity_name].participants = <<email>> \o @]

\* Variant of append: activity["participants"] = [email].
append_overwrites(store, activity_name, email) ==
    [store EXCEPT ![activity_name].participants = <<email>>]

\* activity["participants"].append(email)
append(store, activity_name, email) ==
    [store EXCEPT ![activity_name].participants = Append(@, email)]

\* Variant of signup_for_activity: an unknown activity is created on the fly
\* (activities.setdefault) instead of being refused.
signup_creates_activity(store, activity_name, email) ==
    LET known == IF activity_name \in DOMAIN store THEN store
                 ELSE [n \in DOMAIN store \cup {activity_name} |->
                          IF n \in DOMAIN store THEN store[n]
                          ELSE [description |-> "", schedule |-> "",
                                max_participants |-> 0, participants |-> <<>>]]
    IN IF email \in Range(known[activity_name].participants)
       THEN HTTPException(store, 400, "Student is already signed up")
       ELSE [status |-> 200,
             body |-> [message |-> "Signed up " \o email \o " for " \o activity_name],
             activities |-> append(known, activity_name, email)]

\* Variant of signup_for_activity: the membership check of line 97 is missing.
signup_without_membership_check(store, activity_name, email) ==
    IF activity_name \notin DOMAIN store
    THEN HTTPException(store, 404, "Activity not found")
    ELSE [status |-> 200,
          body |-> [message |-> "Signed up " \o email \o " for " \o activity_name],
          activities |-> append(store, activity_name, email)]

\* Variant of signup_for_activity: the membership check looks at the first
\* participant only.
signup_checks_first_only(store, activity_name, email) ==
    IF activity_name \notin DOMAIN store
    THEN HTTPException(store, 404, "Activity not found")
    ELSE LET activity == store[activity_name] IN
         IF email = activity.participants[1]
         THEN HTTPException(store, 400, "Student is already signed up")
         ELSE [status |-> 200,
               body |-> [message |-> "Signed up " \o email \o " for " \o activity_name],
               activities |-> append(store, activity_name, email)]

\* Variant of signup_for_activity: the membership check looks at the seeded
\* participants (the first two) only.
signup_checks_seeded_only(store, activity_name, email) ==
    IF activity_name \notin DOMAIN store
    THEN HTTPException(store, 404, "Activity not found")
    ELSE LET activity == store[activity_name] IN
         IF email \in Range(SubSeq(activity.participants, 1, 2))
         THEN HTTPException(store, 400, "Student is already signed up")
         ELSE [status |-> 200,
               body |-> [message |-> "Signed up " \o email \o " for " \o activity_name],
               activities |-> append(store, activity_name, email)]

\* Variant of signup_for_activity: max_participants is enforced.
signup_enforces_capacity(store, activity_name, email) ==
    IF activity_name \notin DOMAIN store
    THEN HTTPException(store, 404, "Activity not found")
    ELSE LET activity == store[activity_name] IN
         IF email \in Range(activity.participants)
         THEN HTTPException(store, 400, "Student is already signed up")
         ELSE IF Len(activity.participants) >= activity.max_participants
         THEN HTTPException(store, 400, "Activity is full")
         ELSE [status |-> 200,
               body |-> [message |-> "Signed up " \o email \o " for " \o activity_name],
               activities |-> append(store, activity_name, email)]

\* Variant of signup_for_activity: the membership check looks at every activity.
signup_checks_every_activity(store, activity_name, email) ==
    IF activity_name \notin DOMAIN store
    THEN HTTPException(store, 404, "Activity not found")
    ELSE IF \E n \in DOMAIN store : email \in Range(store[n].participants)
         THEN HTTPException(store, 400, "Student is already signed up")
         ELSE [status |-> 200,
               body |-> [message |-> "Signed up " \o email \o " for " \o activity_name],
               activities |-> append(store, activity_name, email)]

\* POST /activities/{activity_name}/signup?email=...
signup_for_activity(store, activity_name, email) ==
    IF activity_name \notin DOMAIN store
    THEN HTTPException(store, 404, "Activity not found")
    ELSE LET activity == store[activity_name] IN
         IF email \in Range(activity.participants)
         THEN HTTPException(store, 400, "Student is already signed up")
         ELSE [status |-> 200,
               body |-> [message |-> "Signed up " \o email \o " for " \o activity_name],
               activities |-> append(store, activity_name, email)]

----------------------------------------------------------------------------
(* Requests served one after another *)

Init ==
    /\ activities = Seed
    /\ request = NoRequest
    /\ response = NoResponse
    /\ before = Seed
    /\ okCount = [p \in Pairs |-> 0]
    /\ lastListing = NoListing
    /\ dirty = FALSE
    /\ priorListing = NoListing
    /\ priorDirty = FALSE
    /\ pc = [t \in 1..NumThreads |-> "idle"]
    /\ call = [t \in 1..NumThreads |-> NoRequest]
    /\ result = [t \in 1..NumThreads |-> NoResponse]

\* What every served request records about itself.
Served(req, resp) ==
    /\ request' = req
    /\ response' = resp
    /\ before' = activities
    /\ priorListing' = lastListing
    /\ priorDirty' = dirty

Root ==
    /\ Served([op |-> "root", activity_name |-> "", email |-> ""], root)
    /\ UNCHANGED <<activities, okCount, lastListing, dirty, threadVars>>

GetActivities ==
    LET r == get_activities(activities) IN
    /\ Served([op |-> "get_activities", activity_name |-> "", email |-> ""], r)
    /\ lastListing' = r.body
    /\ dirty' = FALSE
    /\ UNCHANGED <<activities, okCount, threadVars>>

Signup(activity_name, email) ==
    LET r == signup_for_activity(activities, activity_name, email) IN
    /\ Served([op |-> "signup", activity_name |-> activity_name, email |-> email],
              [status |-> r.status, body |-> r.body])
    /\ activities' = r.activities
    /\ okCount' = IF r.status = 200
                  THEN [okCount EXCEPT ![<<activity_name, email>>] = @ + 1]
                  ELSE okCount
    /\ dirty' = (dirty \/ r.status = 200)
    /\ UNCHANGED <<lastListing, threadVars>>

\* Spec's clients: any name, any email, until MaxSignups entries were added.
SignupAny ==
    \E activity_name \in ActivityNames, email \in Emails :
        /\ signup_for_activity(activities, activity_name, email).activities # activities
              => TotalAdded(activities) < MaxSignups
        /\ Signup(activity_name, email)

Next == Root \/ GetActivities \/ SignupAny

Spec == Init /\ [][Next]_vars

----------------------------------------------------------------------------
(* Fresh students enrolling in pool order *)

\* Student i asks for an activity once the students before it are on its roster
\* and while no later student is (so the last one enrolled may ask twice), and no
\* student asks to join a roster of MaxRoster entries.
SignupInOrder ==
    \E activity_name \in ActivityNames, i \in DOMAIN StudentPool :
        /\ IF activity_name \in DOMAIN activities
           THEN LET roster == activities[activity_name].participants IN
                /\ \A j \in DOMAIN StudentPool :
                      /\ j < i => StudentPool[j] \in Range(roster)
                      /\ j > i => StudentPool[j] \notin Range(roster)
                /\ StudentPool[i] \notin Range(roster) => Len(roster) < MaxRoster
           ELSE i = 1
        /\ Signup(activity_name, StudentPool[i])

NextCapacity == SignupInOrder

SpecCapacity == Init /\ [][NextCapacity]_vars

----------------------------------------------------------------------------
(* Signup handlers in worker threads: one step per statement of app.py:90-102 *)

Threads == 1..NumThreads

Accept(t) ==
    \E activity_name \in ActivityNames, email \in Emails :
        /\ pc[t] = "idle"
        /\ call' = [call EXCEPT ![t] = [op |-> "signup",
                                        activity_name |-> activity_name,
                                        email |-> email]]
        /\ pc' = [pc EXCEPT ![t] = "l90"]
        /\ UNCHANGED <<activities, result, seqVars>>

\* if activity_name not in activities: raise HTTPException(404)
L90(t) ==
    /\ pc[t] = "l90"
    /\ IF call[t].activity_name \notin DOMAIN activities
       THEN LET r == HTTPException(activities, 404, "Activity not found") IN
            /\ result' = [result EXCEPT ![t] = [status |-> r.status, body |-> r.body]]
            /\ pc' = [pc EXCEPT ![t] = "done"]
       ELSE /\ pc' = [pc EXCEPT ![t] = "l97"]
            /\ UNCHANGED result
    /\ UNCHANGED <<activities, call, seqVars>>

\* if email in activity["participants"]: raise HTTPException(400)
L97(t) ==
    /\ pc[t] = "l97"
    /\ IF call[t].email \in Range(activities[call[t].activity_name].participants)
       THEN LET r == HTTPException(activities, 400, "Student is already signed up") IN
            /\ result' = [result EXCEPT ![t] = [status |-> r.status, body |-> r.body]]
            /\ pc' = [pc EXCEPT ![t] = "done"]
       ELSE /\ pc' = [pc EXCEPT ![t] = "l101"]
            /\ UNCHANGED result
    /\ UNCHANGED <<activities, call, seqVars>>

\* activity["participants"].append(email)
L101(t) ==
    /\ pc[t] = "l101"
    /\ activities' = append(activities, call[t].activity_name, call[t].email)
    /\ pc' = [pc EXCEPT ![t] = "l102"]
    /\ UNCHANGED <<call, result, seqVars>>

\* return {"message": f"Signed up {email} for {activity_name}"}
L102(t) ==
    /\ pc[t] = "l102"
    /\ result' = [result EXCEPT ![t] =
                     [status |-> 200,
                      body |-> [message |-> "Signed up " \o call[t].email
                                            \o " for " \o call[t].activity_name]]]
    /\ pc' = [pc EXCEPT ![t] = "done"]
    /\ UNCHANGED <<activities, call, seqVars>>

NextThreads == \E t \in Threads : Accept(t) \/ L90(t) \/ L97(t) \/ L101(t) \/ L102(t)

SpecThreads == Init /\ [][NextThreads]_vars

----------------------------------------------------------------------------
(* Properties *)

Fields == {"description", "schedule", "max_participants", "participants"}

IsSignup == request.op = "signup"

\* The last request was a signup for a known activity by an email not on its roster.
IsNewSignup ==
    /\ IsSignup
    /\ request.activity_name \in DOMAIN before
    /\ request.email \notin Range(before[request.activity_name].participants)

\* C1: a signup for an activity of the store by an email that is not among its
\* participants returns 200 with the message "Signed up {email} for
\* {activity_name}", and the participants become the previous list with the email
\* appended last, where it occurs exactly once.
C1_SignupAppends ==
    IsNewSignup =>
        LET a == request.activity_name
            e == request.email
        IN /\ response = [status |-> 200,
                          body |-> [message |-> "Signed up " \o e \o " for " \o a]]
           /\ activities[a].participants = Append(before[a].participants, e)
           /\ activities[a].participants[Len(activities[a].participants)] = e
           /\ Count(activities[a].participants, e) = 1

C1_Witness ==
    /\ request = [op |-> "signup", activity_name |-> "Chess Club",
                  email |-> "new_student@mergington.edu"]
    /\ response.status = 200
    /\ response.body.message = "Signed up new_student@mergington.edu for Chess Club"
    /\ before["Chess Club"].participants =
          <<"michael@mergington.edu", "daniel@mergington.edu", "emma@mergington.edu">>
    /\ activities["Chess Club"].participants =
          <<"michael@mergington.edu", "daniel@mergington.edu", "emma@mergington.edu",
            "new_student@mergington.edu">>

\* C2: a signup for a name that is no key of the store returns 404 with detail
\* "Activity not found" and leaves the whole store as it was, whatever the email.
C2_UnknownActivity ==
    (IsSignup /\ request.activity_name \notin DOMAIN before) =>
        /\ response = [status |-> 404, body |-> [detail |-> "Activity not found"]]
        /\ activities = before

C2_Witness ==
    /\ IsSignup
    /\ request.activity_name = "Nonexistent Club"
    /\ request.email = "michael@mergington.edu"
    /\ response.status = 404
    /\ TotalAdded(before) = 2

\* C3: a signup for a known activity by an email already among its participants,
\* seeded or added by an earlier signup, returns 400 with detail "Student is
\* already signed up" and leaves the whole store as it was.
C3_DuplicateSignup ==
    (/\ IsSignup
     /\ request.activity_name \in DOMAIN before
     /\ request.email \in Range(before[request.activity_name].participants)) =>
        /\ response = [status |-> 400,
                       body |-> [detail |-> "Student is already signed up"]]
        /\ activities = before

C3_Witness ==
    /\ request = [op |-> "signup", activity_name |-> "Chess Club",
                  email |-> "duplicate@mergington.edu"]
    /\ okCount[<<"Chess Club", "duplicate@mergington.edu">>] = 1
    /\ response.status = 400
    /\ activities = before

\* C4: in every state reached by GET /, GET /activities and signup requests no
\* participants list holds the same email more than once.
C4_NoDuplicates ==
    \A n \in DOMAIN activities :
        \A i, j \in DOMAIN activities[n].participants :
            activities[n].participants[i] = activities[n].participants[j] => i = j

C4_Witness ==
    /\ Len(activities["Gym Class"].participants) = 5
    /\ request = [op |-> "signup", activity_name |-> "Gym Class",
                  email |-> "duplicate@mergington.edu"]
    /\ response.status = 400

\* C5: with signup handlers running in worker threads, at most one of the
\* signups of one email for one activity returns 200, and the email is at most
\* once among that activity's participants.
C5_AtomicSignup ==
    \A activity_name \in DOMAIN activities, email \in Emails :
        /\ Cardinality({t \in Threads :
                           /\ pc[t] = "done"
                           /\ call[t].activity_name = activity_name
                           /\ call[t].email = email
                           /\ result[t].status = 200}) <= 1
        /\ Count(activities[activity_name].participants, email) <= 1

\* 200 responses the signups of pair p had got when the last request arrived.
OkBefore(p) ==
    IF IsSignup /\ p = <<request.activity_name, request.email>> /\ response.status = 200
    THEN okCount[p] - 1
    ELSE okCount[p]

\* C6: once a signup of an email for an activity has returned 200, every later
\* signup of that email for that activity returns 400 with detail "Student is
\* already signed up"; the signups of one email for one activity lengthen the
\* participants by at most 1 in total.
C6_SecondSignupRefused ==
    /\ (IsSignup /\ OkBefore(<<request.activity_name, request.email>>) >= 1) =>
           response = [status |-> 400,
                       body |-> [detail |-> "Student is already signed up"]]
    /\ \A p \in Pairs : okCount[p] <= 1
    /\ \A n \in DOMAIN activities :
           Len(activities[n].participants) - Len(Seed[n].participants)
              = Cardinality({e \in AllEmails : okCount[<<n, e>>] = 1})

C6_Witness ==
    /\ request = [op |-> "signup", activity_name |-> "Programming Class",
                  email |-> "duplicate@mergington.edu"]
    /\ OkBefore(<<"Programming Class", "duplicate@mergington.edu">>) = 1
    /\ response.status = 400
    /\ TotalAdded(activities) = 3
    /\ activities["Programming Class"].participants[3] = "duplicate@mergington.edu"
    /\ Len(activities["Programming Class"].participants) = 5

\* C7: across every transition the activity names and each activity's
\* description, schedule and max_participants equal the seed values, and each
\* participants list of the earlier state is a prefix of that of the later state.
C7_OnlyParticipantsGrow ==
    [][/\ DOMAIN activities' = DOMAIN Seed
       /\ DOMAIN activities = DOMAIN Seed
       /\ \A n \in DOMAIN Seed :
             /\ DOMAIN activities'[n] = Fields
             /\ activities'[n].description = Seed[n].description
             /\ activities'[n].schedule = Seed[n].schedule
             /\ activities'[n].max_participants = Seed[n].max_participants
             /\ IsPrefix(activities[n].participants, activities'[n].participants)]_vars

C7_Witness ==
    /\ IsSignup
    /\ response.status = 200
    /\ Len(before[request.activity_name].participants) = 3
    /\ Len(activities[request.activity_name].participants) = 4

\* C8: GET /activities returns 200 with the whole current store (every name with
\* its four fields) and leaves the store as it was; with no successful signup
\* since the GET /activities before it, it returns the same data as that one.
C8_ListingIsStore ==
    request.op = "get_activities" =>
        /\ response.status = 200
        /\ response.body = before
        /\ activities = before
        /\ DOMAIN response.body = DOMAIN Seed
        /\ \A n \in DOMAIN response.body : DOMAIN response.body[n] = Fields
        /\ (priorListing # NoListing /\ ~priorDirty) => response.body = priorListing

C8_Witness ==
    /\ request.op = "get_activities"
    /\ priorListing # NoListing
    /\ ~priorDirty
    /\ response.body = priorListing
    /\ Len(response.body["Chess Club"].participants) = 3

C10_OtherActivitiesUntouched ==
    IsSignup =>
        /\ DOMAIN activities = DOMAIN before
        /\ \A n \in DOMAIN before :
              /\ n # request.activity_name => activities[n] = before[n]
              /\ [activities[n] EXCEPT !.participants = <<>>]
                    = [before[n] EXCEPT !.participants = <<>>]
        /\ response.status = 200 <=> IsNewSignup

C10_Witness ==
    /\ request = [op |-> "signup", activity_name |-> "Gym Class",
                  email |-> "michael@mergington.edu"]
    /\ response.status = 200
    /\ okCount[<<"Programming Class", "michael@mergington.edu">>] = 1
    /\ "michael@mergington.edu" \in Range(activities["Chess Club"].participants)
    /\ "michael@mergington.edu" \in Range(activities["Programming Class"].participants)
    /\ "michael@mergington.edu" \in Range(activities["Gym Class"].participants)
====
